---- MODULE Spec2Model ----
(***************************************************************************)
(* ci-operator: options.Complete, options.Run and the cleanup-when-idle    *)
(* pod of cmd/ci-operator/main.go, run against a cluster control plane.    *)
(*                                                                         *)
(* Time is discrete.  One Tick is 1/TicksPerSecond of a second; a          *)
(* time.Duration is a number of ticks.  Timers are relative (time left),   *)
(* so the model needs no absolute clock.                                   *)
(***************************************************************************)
EXTENDS Integers, Sequences, FiniteSets, TLC

\* ------------------------------------------------------------------ bounds
TicksPerSecond == 2
MaxIdle == 2
MaxRuns == 2
MaxAttempts == 3
MaxPods == 1
MaxUID == 2
MaxIngress == 1

\* ------------------------------------------------------- program constants
SleepSeconds == 3
\* wait.PollImmediate(time.Second, time.Minute, ...)
PollIntervalSeconds == 1
PollTimeoutSeconds == 60

\* ------------------------------------------------------------------ inputs
\* --delete-when-idle, in ticks (flag default 0)
IdleDurations == 0..MaxIdle
\* --namespace, as a sequence of string pieces; <<>> is the empty default
NamespaceFlags == { <<>>, <<"t-", "{id}">> }
\* jobSpec.Hash() of the job the environment describes
JobHash == "hash"
BaseNamespaceFlag == "stable"
\* jobSpec.Job, from the environment
JobName == <<"job">>
\* buildConfig.ReleaseTagConfiguration: nil, with a Name, or with a Tag only
TagConfigs == {"nil", "name", "tag"}
\* what the status of the image stream may give as its registry
Registries == {<<>>, <<"registry.svc:5000", "/ns/pipeline">>}
\* one ingress of the status of a route: its host and whether one of its
\* conditions is Admitted with status True
Ingresses ==
  { [host |-> <<>>, admitted |-> TRUE],
    [host |-> <<"rpm.example">>, admitted |-> FALSE],
    [host |-> <<"rpm.example">>, admitted |-> TRUE] }

VARIABLES
  \* options
  dry, idleCleanupDuration, namespaceFlag, namespace, jobSpec,
  \* options.Run
  pc, project, is, err, retErr, sleepLeft, attempts, spun, phases,
  \* restarts of the process
  runNo, prev,
  \* the cluster
  nsPhase, isUID, nextUID, sa, rb, active,
  \* the cleanup-when-idle pod's script
  wpc, count, waitLeft, termPending, wdExit, wdDeleted, deleteVia,
  emptyObs, termSeen,
  \* time without an active run-once pod
  gapLen, gapLong,
  \* steps.Run: the arguments of its calls
  stepsRunArgs,
  \* options.writeParameters and what it reads and writes
  rpmBuildCommands, tagConfig, params, route, pollLeft, pollWait,
  polls, wpErr, file, printed,
  \* the graph of steps and its execution
  steps, links, state, started, runErr

optVars == <<dry, idleCleanupDuration, namespaceFlag, namespace, jobSpec>>
runVars == <<pc, project, is, err, retErr, sleepLeft, attempts, spun, phases>>
procVars == <<runNo, prev>>
objVars == <<isUID, nextUID, sa, rb>>
wdVars == <<wpc, count, waitLeft, termPending, wdExit, wdDeleted, deleteVia,
            emptyObs, termSeen>>
gapVars == <<gapLen, gapLong>>
cfgVars == <<rpmBuildCommands, tagConfig>>
pollVars == <<pollLeft, pollWait, polls>>
expVars == <<cfgVars, params, route, pollVars, wpErr, file, printed>>
execVars == <<steps, links, state, started, runErr>>
vars == <<optVars, runVars, procVars, nsPhase, objVars, active, wdVars, gapVars,
          stepsRunArgs, expVars, execVars>>

\* ----------------------------------------------------------------- helpers
Min(a, b) == IF a < b THEN a ELSE b

Max(a, b) == IF a < b THEN b ELSE a

\* strings.Replace(s, old, new, -1) on a string given as its pieces
Replace(s, old, new) == [i \in 1..Len(s) |-> IF s[i] = old THEN new ELSE s[i]]

\* time.Duration.Seconds() converted with int(): whole seconds, truncated
Seconds(d) == d \div TicksPerSecond

\* the WAIT variable of the pod: fmt.Sprintf("%d", int(Seconds())), read back
\* by sleep as a number of seconds; here in ticks
WaitTicks == Seconds(idleCleanupDuration) * TicksPerSecond

\* the calls of Run whose error is kept
Calls == {"nsCreate", "nsGet", "sa", "rb", "pod", "isCreate", "isGet"}

NoErrs == [c \in Calls |-> "none"]

NilIS == [nil |-> TRUE, uid |-> 0]

NoOwner == [set |-> FALSE, uid |-> 0]

NoJobSpec == [namespace |-> <<>>, baseNamespace |-> "", owner |-> NoOwner]

\* the output file before anything wrote to it
NoFile == [writes |-> 0, content |-> <<>>]

\* no route of the name steps.RPMRepoName in the namespace
NoRoute == [exists |-> FALSE, ingress |-> <<>>]

\* the routes of that name the namespace may hold
Routes ==
  {NoRoute} \cup
  { [exists |-> TRUE, ingress |-> g] :
      g \in UNION { [1..n -> Ingresses] : n \in 0..MaxIngress } }

\* the flags as parsed, before Complete
OptionsInit ==
  /\ dry \in BOOLEAN
  /\ idleCleanupDuration \in IdleDurations
  /\ namespaceFlag \in NamespaceFlags
  /\ namespace = namespaceFlag
  /\ jobSpec = NoJobSpec

\* the process at the start of main
RunInit ==
  /\ pc = "Complete"
  /\ project = "none"
  /\ is = NilIS
  /\ err = NoErrs
  /\ retErr = "none"
  /\ sleepLeft = 0
  /\ attempts = 0
  /\ spun = FALSE
  /\ phases = <<>>
  /\ runNo = 1
  /\ prev = [namespace |-> <<>>, owner |-> NoOwner]
  /\ stepsRunArgs = <<>>
  /\ params = <<>>
  /\ pollLeft = 0
  /\ pollWait = 0
  /\ polls = 0
  /\ wpErr = "none"
  /\ printed = <<>>
  /\ file = NoFile

\* a cluster that has no namespace of the job
ClusterInit ==
  /\ nsPhase = "absent"
  /\ isUID = 0
  /\ nextUID = 1
  /\ sa = FALSE
  /\ rb = FALSE
  /\ active = 0
  /\ route = NoRoute

\* no cleanup-when-idle pod
WatchdogInit ==
  /\ wpc = "none"
  /\ count = <<0>>
  /\ waitLeft = 0
  /\ termPending = FALSE
  /\ wdExit = "none"
  /\ wdDeleted = FALSE
  /\ deleteVia = "none"
  /\ emptyObs = 0
  /\ termSeen = FALSE
  /\ gapLen = 0
  /\ gapLong = FALSE

\* a configuration with no rpm build and no release tag configuration
PlainConfig ==
  /\ rpmBuildCommands = FALSE
  /\ tagConfig = "nil"

\* no graph of steps is followed
NoGraph ==
  /\ steps = {}
  /\ links = {}
  /\ state = <<>>
  /\ started = <<>>
  /\ runErr = "none"

Init ==
  /\ OptionsInit
  /\ RunInit
  /\ ClusterInit
  /\ WatchdogInit
  /\ PlainConfig
  /\ NoGraph

\* ------------------------------------------------------- options.Complete
\* o.namespace after lines 72-75
CompleteNamespace(flag, hash) ==
  Replace(IF Len(flag) = 0 THEN <<"ci-op-", "{id}">> ELSE flag, "{id}", hash)

Complete ==
  /\ pc = "Complete"
  /\ namespace' = CompleteNamespace(namespace, JobHash)
  /\ jobSpec' = [jobSpec EXCEPT !.namespace = CompleteNamespace(namespace, JobHash),
                                !.baseNamespace = BaseNamespaceFlag]
  /\ pc' = IF dry THEN "FromConfig" ELSE "NsCreate"
  /\ UNCHANGED <<dry, idleCleanupDuration, namespaceFlag>>
  /\ UNCHANGED <<project, is, err, retErr, sleepLeft, attempts, spun, phases>>
  /\ UNCHANGED <<procVars, nsPhase, objVars, active, wdVars, gapVars>>
  /\ UNCHANGED <<stepsRunArgs, expVars, execVars>>

\* ------------------------------------------------------------ options.Run
\* mutant: every error passes for already-exists, so none is fatal
IsAlreadyExistsIgnoresKind(e) == TRUE

\* mutant: already-exists is taken for a failure
IsAlreadyExistsNever(e) == FALSE

\* errors.IsAlreadyExists(err), errors.IsNotFound(err)
IsAlreadyExists(e) == e = "AlreadyExists"

IsNotFound(e) == e = "NotFound"

\* mutant: the phase of the project is not looked at
IsTerminatingNever(phase) == FALSE

\* project.Status.Phase == coreapi.NamespaceTerminating (line 148)
IsTerminating(phase) == phase = "Terminating"

\* mutant: the image stream is set up right after the namespace
AfterNamespaceAnchorFirst == "ISCreate"

\* mutant: the cleanup pod is set up whatever --delete-when-idle says
AfterNamespaceAlwaysWatchdog == "SA"

\* where Run goes once the namespace loop breaks (lines 153-162)
AfterNamespace == IF idleCleanupDuration > 0 THEN "SA" ELSE "ISCreate"

\* lines 148-153: sleep and retry while Terminating, else break
PhaseCheck(phase) == IF IsTerminating(phase) THEN "NsSleep" ELSE AfterNamespace

\* Run returns the error
Fail(msg) ==
  /\ pc' = "Failed"
  /\ retErr' = msg

\* what the control plane may answer to a create of a project request:
\* any create may fail for a reason of the control plane's own ("Other")
ProjectCreateAnswers ==
  {"Other"} \cup (IF nsPhase = "absent" THEN {"nil"} ELSE {"AlreadyExists"})

ProjectGetAnswers ==
  {"Other"} \cup (IF nsPhase = "absent" THEN {"NotFound"} ELSE {"nil"})

\* a create of an object inside the namespace: refused unless the namespace
\* is Active
ObjectCreateAnswers(exists) ==
  {"Other"} \cup (IF nsPhase # "Active" THEN {}
                  ELSE IF exists THEN {"AlreadyExists"} ELSE {"nil"})

\* lines 148-153 on the project that create or get returned
Observe(phase) ==
  /\ project' = phase
  /\ pc' = PhaseCheck(phase)
  /\ sleepLeft' = IF PhaseCheck(phase) = "NsSleep"
                  THEN SleepSeconds * TicksPerSecond ELSE sleepLeft
  /\ phases' = IF PhaseCheck(phase) = "NsSleep" THEN phases
               ELSE Append(phases, "namespace")

\* lines 131-139 and, when the create succeeded, 148-153
NsCreate ==
  /\ pc = "NsCreate"
  /\ attempts' = Min(attempts + 1, MaxAttempts)
  /\ \E a \in ProjectCreateAnswers :
       /\ err' = [err EXCEPT !.nsCreate = a, !.nsGet = "none"]
       /\ IF a # "nil" /\ ~IsAlreadyExists(a)
          THEN /\ Fail("could not set up namespace for test")
               /\ UNCHANGED <<project, sleepLeft, phases, nsPhase, gapVars>>
          ELSE IF a # "nil"
          THEN /\ pc' = "NsGet"
               /\ UNCHANGED <<project, retErr, sleepLeft, phases, nsPhase, gapVars>>
          ELSE /\ nsPhase' = "Active"
               /\ gapLen' = 0
               /\ gapLong' = FALSE
               /\ Observe("Active")
               /\ UNCHANGED retErr
  /\ UNCHANGED <<optVars, is, spun, procVars, objVars, active, wdVars>>
  /\ UNCHANGED <<stepsRunArgs, expVars, execVars>>

\* lines 140-153
NsGet ==
  /\ pc = "NsGet"
  /\ \E a \in ProjectGetAnswers :
       /\ err' = [err EXCEPT !.nsGet = a]
       /\ IF a # "nil" /\ IsNotFound(a)
          THEN /\ pc' = "NsCreate"
               /\ spun' = TRUE
               /\ UNCHANGED <<project, retErr, sleepLeft, phases>>
          ELSE IF a # "nil"
          THEN /\ Fail("cannot retrieve test namespace")
               /\ UNCHANGED <<project, sleepLeft, phases, spun>>
          ELSE /\ Observe(nsPhase)
               /\ UNCHANGED <<retErr, spun>>
  /\ UNCHANGED <<optVars, is, attempts, procVars, nsPhase, objVars, active,
                 wdVars, gapVars>>
  /\ UNCHANGED <<stepsRunArgs, expVars, execVars>>

\* lines 150-151: time.Sleep(3 * time.Second) is over; continue
NsSleep ==
  /\ pc = "NsSleep"
  /\ sleepLeft = 0
  /\ pc' = "NsCreate"
  /\ UNCHANGED <<project, is, err, retErr, sleepLeft, attempts, spun, phases>>
  /\ UNCHANGED <<optVars, procVars, nsPhase, objVars, active, wdVars, gapVars>>
  /\ UNCHANGED <<stepsRunArgs, expVars, execVars>>

\* ------------------------------------------- options.createNamespaceCleanupPod
\* lines 317-323
CreateServiceAccount ==
  /\ pc = "SA"
  /\ \E a \in ObjectCreateAnswers(sa) :
       /\ err' = [err EXCEPT !.sa = a]
       /\ IF a # "nil" /\ ~IsAlreadyExists(a)
          THEN /\ Fail("could not create service account for cleanup")
               /\ UNCHANGED sa
          ELSE /\ pc' = "RB"
               /\ sa' = TRUE
               /\ UNCHANGED retErr
  /\ UNCHANGED <<optVars, project, is, sleepLeft, attempts, spun, phases>>
  /\ UNCHANGED <<procVars, nsPhase, isUID, nextUID, rb, active, wdVars, gapVars>>
  /\ UNCHANGED <<stepsRunArgs, expVars, execVars>>

\* lines 324-335
CreateRoleBinding ==
  /\ pc = "RB"
  /\ \E a \in ObjectCreateAnswers(rb) :
       /\ err' = [err EXCEPT !.rb = a]
       /\ IF a # "nil" /\ ~IsAlreadyExists(a)
          THEN /\ Fail("could not create role binding for cleanup")
               /\ UNCHANGED rb
          ELSE /\ pc' = "Pod"
               /\ rb' = TRUE
               /\ UNCHANGED retErr
  /\ UNCHANGED <<optVars, project, is, sleepLeft, attempts, spun, phases>>
  /\ UNCHANGED <<procVars, nsPhase, isUID, nextUID, sa, active, wdVars, gapVars>>
  /\ UNCHANGED <<stepsRunArgs, expVars, execVars>>

\* lines 337-400: the pod is created and its container starts the script;
\* a pod that exists (running or not) answers already-exists
CreatePod ==
  /\ pc = "Pod"
  /\ \E a \in ObjectCreateAnswers(wpc # "none") :
       /\ err' = [err EXCEPT !.pod = a]
       /\ IF a # "nil" /\ ~IsAlreadyExists(a)
          THEN /\ Fail("could not create pod for cleanup")
               /\ UNCHANGED <<phases, wdVars>>
          ELSE /\ pc' = "ISCreate"
               /\ phases' = Append(phases, "watchdog")
               /\ wpc' = IF a = "nil" THEN "start" ELSE wpc
               /\ UNCHANGED <<retErr, count, waitLeft, termPending, wdExit,
                              wdDeleted, deleteVia, emptyObs, termSeen>>
  /\ UNCHANGED <<optVars, project, is, sleepLeft, attempts, spun>>
  /\ UNCHANGED <<procVars, nsPhase, objVars, active, gapVars>>
  /\ UNCHANGED <<stepsRunArgs, expVars, execVars>>

\* --------------------------------------------- options.Run, lines 162-208
\* what ImageStreams(ns).Get hands back with answer a.  With an error the
\* caller drops it (line 178: is, _ = ...) and keeps only the pointer: nil,
\* or the empty object the typed client allocated for the response
GetImageStream(a) ==
  IF a = "nil" THEN { [nil |-> FALSE, uid |-> isUID] }
  ELSE { NilIS, [nil |-> FALSE, uid |-> 0] }

ImageStreamGetAnswers ==
  {"Other"} \cup (IF isUID = 0 THEN {"NotFound"} ELSE {"nil"})

\* mutant: the owner is attached to a fresh JobSpec that lost its base namespace
OwnerOfFreshSpec(isv, spec) ==
  IF ~isv.nil THEN [spec EXCEPT !.owner = [set |-> TRUE, uid |-> isv.uid],
                                !.baseNamespace = ""]
  ELSE spec

\* lines 180-189: SetOwner with the UID of is, unless is is nil
OwnerOf(isv, spec) ==
  IF ~isv.nil THEN [spec EXCEPT !.owner = [set |-> TRUE, uid |-> isv.uid]]
  ELSE spec

\* lines 168-177 and, when the create succeeded, 180-189
ImageStreamCreate ==
  /\ pc = "ISCreate"
  /\ \E a \in ObjectCreateAnswers(isUID # 0) :
       /\ a = "nil" => nextUID <= MaxUID
       /\ err' = [err EXCEPT !.isCreate = a]
       /\ IF a # "nil" /\ ~IsAlreadyExists(a)
          THEN /\ Fail("could not set up pipeline imagestream for test")
               /\ UNCHANGED <<is, jobSpec, phases, isUID, nextUID>>
          ELSE IF a # "nil"
          THEN /\ pc' = "ISGet"
               /\ UNCHANGED <<is, jobSpec, retErr, phases, isUID, nextUID>>
          ELSE /\ isUID' = nextUID
               /\ nextUID' = nextUID + 1
               /\ is' = [nil |-> FALSE, uid |-> nextUID]
               /\ jobSpec' = OwnerOf([nil |-> FALSE, uid |-> nextUID], jobSpec)
               /\ phases' = Append(phases, "anchor")
               /\ pc' = "FromConfig"
               /\ UNCHANGED retErr
  /\ UNCHANGED <<dry, idleCleanupDuration, namespaceFlag, namespace>>
  /\ UNCHANGED <<project, sleepLeft, attempts, spun>>
  /\ UNCHANGED <<procVars, nsPhase, sa, rb, active, wdVars, gapVars>>
  /\ UNCHANGED <<stepsRunArgs, expVars, execVars>>

\* lines 178-189
ImageStreamGet ==
  /\ pc = "ISGet"
  /\ \E a \in ImageStreamGetAnswers :
       /\ err' = [err EXCEPT !.isGet = a]
       /\ \E isv \in GetImageStream(a) :
            /\ is' = isv
            /\ jobSpec' = OwnerOf(isv, jobSpec)
  /\ phases' = Append(phases, "anchor")
  /\ pc' = "FromConfig"
  /\ UNCHANGED <<dry, idleCleanupDuration, namespaceFlag, namespace>>
  /\ UNCHANGED <<project, retErr, sleepLeft, attempts, spun>>
  /\ UNCHANGED <<procVars, nsPhase, objVars, active, wdVars, gapVars>>
  /\ UNCHANGED <<stepsRunArgs, expVars, execVars>>

\* lines 192-195: steps.FromConfig
FromConfig ==
  /\ pc = "FromConfig"
  /\ \E ok \in BOOLEAN :
       IF ok THEN /\ pc' = "BuildGraph"
                  /\ phases' = Append(phases, "steps")
                  /\ UNCHANGED retErr
       ELSE /\ Fail("failed to generate steps from config")
            /\ UNCHANGED phases
  /\ UNCHANGED <<optVars, project, is, err, sleepLeft, attempts, spun>>
  /\ UNCHANGED <<procVars, nsPhase, objVars, active, wdVars, gapVars>>
  /\ UNCHANGED <<stepsRunArgs, expVars, execVars>>

\* mutant: steps.Run is told to act on the cluster whatever the flag says
StepsRunDryNever == FALSE

\* line 197: the second argument of steps.Run
StepsRunDry == dry

\* line 197: api.BuildGraph(buildSteps), the argument of steps.Run, and the
\* call of steps.Run
BuildGraph ==
  /\ pc = "BuildGraph"
  /\ pc' = "StepsRun"
  /\ phases' = Append(phases, "graph")
  /\ UNCHANGED <<optVars, project, is, err, retErr, sleepLeft, attempts, spun>>
  /\ UNCHANGED <<procVars, nsPhase, objVars, active, wdVars, gapVars>>
  /\ stepsRunArgs' = Append(stepsRunArgs, StepsRunDry)
  /\ UNCHANGED <<expVars, execVars>>

\* line 197, inside steps.Run: a step creates a run-once pod in the namespace
StepPodCreate ==
  /\ pc = "StepsRun"
  /\ stepsRunArgs = <<FALSE>>
  /\ nsPhase = "Active"
  /\ active < MaxPods
  /\ active' = active + 1
  /\ gapLen' = 0
  /\ UNCHANGED <<optVars, runVars, procVars, nsPhase, objVars, wdVars, gapLong>>
  /\ UNCHANGED <<stepsRunArgs, expVars, execVars>>

\* lines 197-207: steps.Run returns; --write-params is set or not
StepsReturn ==
  /\ pc = "StepsRun"
  /\ \E ok \in BOOLEAN, writeParams \in BOOLEAN :
       IF ok THEN /\ pc' = IF writeParams THEN "WriteParams" ELSE "Done"
                  /\ phases' = Append(phases, "execute")
                  /\ UNCHANGED retErr
       ELSE /\ Fail("steps.Run")
            /\ UNCHANGED phases
  /\ UNCHANGED <<optVars, project, is, err, sleepLeft, attempts, spun>>
  /\ UNCHANGED <<procVars, nsPhase, objVars, active, wdVars, gapVars>>
  /\ UNCHANGED <<stepsRunArgs, expVars, execVars>>

\* lines 201-205: o.writeParameters
WriteParameters ==
  /\ pc = "WriteParams"
  /\ \E ok \in BOOLEAN :
       IF ok THEN /\ pc' = "Done"
                  /\ phases' = Append(phases, "params")
                  /\ UNCHANGED retErr
       ELSE /\ Fail("failed to write parameters")
            /\ UNCHANGED phases
  /\ UNCHANGED <<optVars, project, is, err, sleepLeft, attempts, spun>>
  /\ UNCHANGED <<procVars, nsPhase, objVars, active, wdVars, gapVars>>
  /\ UNCHANGED <<stepsRunArgs, expVars, execVars>>

\* ------------------------------------------- options.writeParameters, refined
\* fmt.Sprintf("%q", s) for a string without characters to escape
Quote(s) == <<"\"">> \o s \o <<"\"">>

\* strings.Join(a, sep)
RECURSIVE Join(_, _)
Join(a, sep) ==
  IF Len(a) = 0 THEN <<>>
  ELSE IF Len(a) = 1 THEN a[1]
  ELSE a[1] \o <<sep>> \o Join(Tail(a), sep)

\* strings.SplitN(s, "/", 2)[0] on the pieces of a repository name
RegistryHost(repo) == <<repo[1]>>

\* lines 252-259: the registry of the image stream, if it names one
RegistryOf(isv, repo) ==
  IF ~isv.nil /\ Len(repo) > 0 THEN RegistryHost(repo) ELSE <<"REGISTRY">>

\* lines 260-265: the format of the image references
ImageFormat(registry, ns, tc) ==
  IF tc = "name"
  THEN registry \o <<"/">> \o ns \o <<"/", "prefix", "stable", ":", "${component}">>
  ELSE registry \o <<"/">> \o ns \o <<"/", "prefix", "${component}", ":", "tag">>

\* lines 248-267: the parameters that need no poll
StaticParams(isv, repo) ==
  << <<"JOB_NAME=">> \o Quote(JobName),
     <<"NAMESPACE=">> \o Quote(namespace) >>
  \o (IF tagConfig = "nil" THEN <<>>
      ELSE << <<"IMAGE_FORMAT=", "'">>
              \o ImageFormat(RegistryOf(isv, repo), namespace, tagConfig)
              \o <<"'">> >>)

\* mutant: the first ingress that is admitted, with or without a host
AdmittedRouteAnyHost(ingress) ==
  IF \E i \in 1..Len(ingress) : ingress[i].admitted
  THEN [host |-> ingress[CHOOSE i \in 1..Len(ingress) : ingress[i].admitted].host,
        ok |-> TRUE]
  ELSE [host |-> <<>>, ok |-> FALSE]

\* lines 210-222, on route.Status.Ingress
RECURSIVE admittedRoute(_)
admittedRoute(ingress) ==
  IF Len(ingress) = 0 THEN [host |-> <<>>, ok |-> FALSE]
  ELSE IF Len(Head(ingress).host) = 0 THEN admittedRoute(Tail(ingress))
  ELSE IF Head(ingress).admitted THEN [host |-> Head(ingress).host, ok |-> TRUE]
  ELSE admittedRoute(Tail(ingress))

\* what the control plane may answer to the get of the route
RouteGetAnswers ==
  {"Other"} \cup (IF route.exists /\ nsPhase = "Active" THEN {"nil"} ELSE {"NotFound"})

\* mutant: the error is noted and the export goes on to its output
WpFailIgnored(e) ==
  /\ wpErr' = e
  /\ pc' = "WpOutput"
  /\ UNCHANGED retErr

\* mutant: the error is noted and the caller carries on where it was
WpFailRetried(e) ==
  /\ wpErr' = e
  /\ UNCHANGED <<pc, retErr>>

\* writeParameters returns e (lines 275, 281, 290, 299) and Run wraps it
\* (line 203)
WpFail(e) ==
  /\ wpErr' = e
  /\ Fail("failed to write parameters")

\* lines 244-276: the parameters that need no poll, the placeholder of a dry
\* run, and the route client
WpParams ==
  /\ pc = "WriteParams"
  /\ \E repo \in (IF is.nil \/ tagConfig = "nil" THEN {<<>>} ELSE Registries) :
       IF ~rpmBuildCommands
       THEN /\ params' = StaticParams(is, repo)
            /\ pc' = "WpOutput"
            /\ UNCHANGED <<retErr, wpErr, pollLeft, pollWait>>
       ELSE IF dry
       THEN /\ params' = Append(StaticParams(is, repo), <<"RPM_REPO=", "\"", "\"">>)
            /\ pc' = "WpOutput"
            /\ UNCHANGED <<retErr, wpErr, pollLeft, pollWait>>
       ELSE \E clientOk \in BOOLEAN :
            /\ params' = StaticParams(is, repo)
            /\ IF clientOk
               THEN /\ pc' = "WpPoll"
                    /\ pollLeft' = PollTimeoutSeconds * TicksPerSecond
                    /\ pollWait' = 0
                    /\ UNCHANGED <<retErr, wpErr>>
               ELSE /\ WpFail("could not get route client for cluster config")
                    /\ UNCHANGED <<pollLeft, pollWait>>
  /\ UNCHANGED <<optVars, project, is, err, sleepLeft, attempts, spun, phases>>
  /\ UNCHANGED <<procVars, nsPhase, objVars, active, wdVars, gapVars>>
  /\ UNCHANGED <<stepsRunArgs, cfgVars, route, polls, file, printed, execVars>>

\* line 277: the condition of wait.PollImmediate is due: at once, then after
\* every interval, and a last time when the timeout is over
PollDue == pc = "WpPoll" /\ (pollWait = 0 \/ pollLeft = 0)

\* lines 277-291: one call of the condition; when the poll ends its timers
\* are stopped
WpPoll ==
  /\ PollDue
  /\ polls' = polls + 1
  /\ \E a \in RouteGetAnswers :
       IF a # "nil"
       THEN /\ WpFail(a)
            /\ pollLeft' = 0
            /\ pollWait' = 0
            /\ UNCHANGED params
       ELSE IF admittedRoute(route.ingress).ok
       THEN /\ params' = Append(params, <<"RPM_REPO=">>
                                          \o Quote(admittedRoute(route.ingress).host))
            /\ pc' = "WpOutput"
            /\ pollLeft' = 0
            /\ pollWait' = 0
            /\ UNCHANGED <<retErr, wpErr>>
       ELSE IF pollLeft = 0
       THEN /\ WpFail("timed out waiting for the condition")
            /\ pollWait' = 0
            /\ UNCHANGED <<params, pollLeft>>
       ELSE /\ pollWait' = Min(PollIntervalSeconds * TicksPerSecond, pollLeft)
            /\ UNCHANGED <<pc, retErr, wpErr, params, pollLeft>>
  /\ UNCHANGED <<optVars, project, is, err, sleepLeft, attempts, spun, phases>>
  /\ UNCHANGED <<procVars, nsPhase, objVars, active, wdVars, gapVars>>
  /\ UNCHANGED <<stepsRunArgs, cfgVars, route, file, printed, execVars>>

\* lines 293-301: print in a dry run, else write the file; a failed
\* ioutil.WriteFile leaves the file as it was or created and cut to nothing
WpOutput ==
  /\ pc = "WpOutput"
  /\ IF dry
     THEN /\ printed' = Append(printed, Join(params, "\n"))
          /\ pc' = "Done"
          /\ phases' = Append(phases, "params")
          /\ UNCHANGED <<retErr, wpErr, file, params>>
     ELSE /\ params' = Append(params, <<>>)
          /\ \E written \in BOOLEAN :
               IF written
               THEN /\ file' = [writes |-> Min(file.writes + 1, 2),
                                 content |-> Join(Append(params, <<>>), "\n")]
                    /\ pc' = "Done"
                    /\ phases' = Append(phases, "params")
                    /\ UNCHANGED <<retErr, wpErr>>
               ELSE /\ file' \in {file, [writes |-> Min(file.writes + 1, 2),
                                          content |-> <<>>]}
                    /\ WpFail("write")
                    /\ UNCHANGED phases
          /\ UNCHANGED printed
  /\ UNCHANGED <<optVars, project, is, err, sleepLeft, attempts, spun>>
  /\ UNCHANGED <<procVars, nsPhase, objVars, active, wdVars, gapVars>>
  /\ UNCHANGED <<stepsRunArgs, cfgVars, route, pollVars, execVars>>

\* the route of the rpm repository, which a step of the run creates, is
\* created, admitted by a router, changed or deleted
RouteChange ==
  /\ nsPhase = "Active"
  /\ stepsRunArgs = <<FALSE>>
  /\ route' \in Routes \ {route}
  /\ UNCHANGED <<optVars, runVars, procVars, nsPhase, objVars, active, wdVars>>
  /\ UNCHANGED <<gapVars, stepsRunArgs, cfgVars, params, pollVars, wpErr, file>>
  /\ UNCHANGED <<printed, execVars>>

\* ------------------------------------------------------------- the process
Ended == pc \in {"Done", "Failed", "Crashed"}

\* the orchestrator process is killed
Crash ==
  /\ ~Ended
  /\ pc' = "Crashed"
  /\ UNCHANGED <<project, is, err, retErr, sleepLeft, attempts, spun, phases>>
  /\ UNCHANGED <<optVars, procVars, nsPhase, objVars, active, wdVars, gapVars>>
  /\ UNCHANGED <<stepsRunArgs, expVars, execVars>>

\* main (lines 224-242) is started again for the same job: same flags, same
\* environment, the cluster as the last run left it
Restart ==
  /\ Ended
  /\ runNo < MaxRuns
  /\ runNo' = runNo + 1
  /\ prev' = [namespace |-> jobSpec.namespace, owner |-> jobSpec.owner]
  /\ namespace' = namespaceFlag
  /\ jobSpec' = NoJobSpec
  /\ pc' = "Complete"
  /\ project' = "none"
  /\ is' = NilIS
  /\ err' = NoErrs
  /\ retErr' = "none"
  /\ sleepLeft' = 0
  /\ attempts' = 0
  /\ spun' = FALSE
  /\ phases' = <<>>
  /\ UNCHANGED <<dry, idleCleanupDuration, namespaceFlag>>
  /\ UNCHANGED <<nsPhase, objVars, active, wdVars, gapVars>>
  /\ stepsRunArgs' = <<>>
  /\ params' = <<>>
  /\ pollLeft' = 0
  /\ pollWait' = 0
  /\ polls' = 0
  /\ wpErr' = "none"
  /\ printed' = <<>>
  /\ UNCHANGED <<cfgVars, route, file, execVars>>

\* ------------------------------------- the cleanup-when-idle script (363-392)
RECURSIVE DigitsValue(_, _)
DigitsValue(s, base) ==
  IF Len(s) = 0 THEN 0
  ELSE DigitsValue(SubSeq(s, 1, Len(s) - 1), base) * base + s[Len(s)]

\* a string of digits as [[ ... -lt ... ]] reads it: a leading 0 makes it octal
BashInt(s) ==
  IF Len(s) > 1 /\ s[1] = 0 THEN DigitsValue(Tail(s), 8) ELSE DigitsValue(s, 10)

\* line 385: count+=1 on a variable that is not declared an integer appends
CountPlus(c) == Append(c, 1)

\* line 384: [[ "${count}" -lt 1 ]]
CountBelowOne(c) == BashInt(c) < 1

\* mutant: cleanup is called at the end of the script, not from an EXIT trap
TrapEXITOnSuccessOnly(status) == status = "0"

\* line 373: trap cleanup EXIT runs cleanup on every exit of the shell
TrapEXIT(status) == TRUE

\* the shell exits with status: lines 367-370 run when the EXIT trap applies,
\* and oc delete project puts the namespace in Terminating
ScriptExit(status, via) ==
  /\ wpc' = "exited"
  /\ wdExit' = status
  /\ IF TrapEXIT(status)
     THEN /\ wdDeleted' = TRUE
          /\ deleteVia' = via
          /\ nsPhase' = IF nsPhase = "Active" THEN "Terminating" ELSE nsPhase
     ELSE UNCHANGED <<wdDeleted, deleteVia, nsPhase>>

\* lines 365-376: the container starts; the traps are set, count=0
WdStart ==
  /\ wpc = "start"
  /\ wpc' = "list"
  /\ count' = <<0>>
  /\ UNCHANGED <<waitLeft, termPending, wdExit, wdDeleted, deleteVia, emptyObs,
                 termSeen>>
  /\ UNCHANGED <<optVars, runVars, procVars, nsPhase, objVars, active, gapVars>>
  /\ UNCHANGED <<stepsRunArgs, expVars, execVars>>

\* lines 378-390: oc get pods ends and the loop body runs up to its sleep or
\* exit.  A TERM that arrived while oc ran is handled now: its trap (line 372)
\* finds no job to kill, kill fails and set -e ends the shell.  A failing oc
\* fails the assignment of line 378 and set -e ends the shell.
WdList ==
  /\ wpc = "list"
  /\ IF termPending
     THEN /\ ScriptExit("2", "term")
          /\ UNCHANGED <<count, waitLeft, emptyObs>>
     ELSE \E listed \in BOOLEAN :
       IF ~listed
       THEN /\ ScriptExit("1", "error")
            /\ UNCHANGED <<count, waitLeft, emptyObs>>
       ELSE IF active > 0
       THEN /\ count' = <<0>>
            /\ emptyObs' = 0
            /\ waitLeft' = WaitTicks
            /\ wpc' = "sleep"
            /\ UNCHANGED <<wdExit, wdDeleted, deleteVia, nsPhase>>
       ELSE IF CountBelowOne(count)
       THEN /\ count' = CountPlus(count)
            /\ emptyObs' = Min(emptyObs + 1, 2)
            /\ waitLeft' = WaitTicks
            /\ wpc' = "sleep"
            /\ UNCHANGED <<wdExit, wdDeleted, deleteVia, nsPhase>>
       ELSE /\ emptyObs' = Min(emptyObs + 1, 2)
            /\ ScriptExit("0", "idle")
            /\ UNCHANGED <<count, waitLeft>>
  /\ UNCHANGED <<termPending, termSeen>>
  /\ UNCHANGED <<optVars, runVars, procVars, objVars, active, gapVars>>
  /\ UNCHANGED <<stepsRunArgs, expVars, execVars>>

\* lines 381, 386: sleep ${WAIT} & wait is over; continue
WdWake ==
  /\ wpc = "sleep"
  /\ waitLeft = 0
  /\ wpc' = "list"
  /\ UNCHANGED <<count, waitLeft, termPending, wdExit, wdDeleted, deleteVia,
                 emptyObs, termSeen>>
  /\ UNCHANGED <<optVars, runVars, procVars, nsPhase, objVars, active, gapVars>>
  /\ UNCHANGED <<stepsRunArgs, expVars, execVars>>

\* the kubelet sends TERM to the shell: the pod was deleted, by hand or with
\* its namespace, or its ActiveDeadlineSeconds (lines 338, 344) are over.
\* Before the traps are set the shell dies of the signal; while oc runs in
\* the foreground the trap is deferred; during wait the trap of line 372 runs
\* at once: kill the sleep, exit 1
WdSigTerm ==
  /\ wpc \in {"start", "list", "sleep"}
  /\ termSeen' = TRUE
  /\ IF wpc = "start"
     THEN /\ wpc' = "exited"
          /\ wdExit' = "SIGTERM"
          /\ UNCHANGED <<termPending, wdDeleted, deleteVia, nsPhase>>
     ELSE IF wpc = "list"
     THEN /\ termPending' = TRUE
          /\ UNCHANGED <<wpc, wdExit, wdDeleted, deleteVia, nsPhase>>
     ELSE /\ ScriptExit("1", "term")
          /\ UNCHANGED termPending
  /\ UNCHANGED <<count, waitLeft, emptyObs>>
  /\ UNCHANGED <<optVars, runVars, procVars, objVars, active, gapVars>>
  /\ UNCHANGED <<stepsRunArgs, expVars, execVars>>

\* --------------------------------------------------------------- the cluster
\* a run-once pod reaches Succeeded or Failed
PodFinish ==
  /\ active > 0
  /\ active' = active - 1
  /\ gapLen' = 0
  /\ UNCHANGED <<optVars, runVars, procVars, nsPhase, objVars, wdVars, gapLong>>
  /\ UNCHANGED <<stepsRunArgs, expVars, execVars>>

\* the Terminating namespace is gone, with everything in it
NsFinalize ==
  /\ nsPhase = "Terminating"
  /\ active = 0
  /\ wpc \in {"none", "exited"}
  /\ nsPhase' = "absent"
  /\ isUID' = 0
  /\ sa' = FALSE
  /\ rb' = FALSE
  /\ wpc' = "none"
  /\ count' = <<0>>
  /\ waitLeft' = 0
  /\ termPending' = FALSE
  /\ wdExit' = "none"
  /\ wdDeleted' = FALSE
  /\ deleteVia' = "none"
  /\ emptyObs' = 0
  /\ termSeen' = FALSE
  /\ gapLen' = 0
  /\ gapLong' = FALSE
  /\ UNCHANGED <<optVars, runVars, procVars, nextUID, active>>
  /\ route' = NoRoute
  /\ UNCHANGED <<stepsRunArgs, cfgVars, params, pollVars, wpErr, file, printed>>
  /\ UNCHANGED execVars

\* one tick of time passes; a poll that is due is made before the next tick
Tick ==
  /\ ~PollDue
  /\ sleepLeft' = Max(sleepLeft - 1, 0)
  /\ waitLeft' = Max(waitLeft - 1, 0)
  /\ IF nsPhase = "Active" /\ active = 0 /\ WaitTicks > 0
     THEN /\ gapLen' = Min(gapLen + 1, WaitTicks)
          /\ gapLong' = (gapLong \/ gapLen + 1 >= WaitTicks)
     ELSE UNCHANGED gapVars
  /\ UNCHANGED <<optVars, project, is, err, pc, retErr, attempts, spun, phases>>
  /\ UNCHANGED <<procVars, nsPhase, objVars, active>>
  /\ UNCHANGED <<wpc, count, termPending, wdExit, wdDeleted, deleteVia, emptyObs,
                 termSeen>>
  /\ pollLeft' = Max(pollLeft - 1, 0)
  /\ pollWait' = Max(pollWait - 1, 0)
  /\ UNCHANGED <<stepsRunArgs, cfgVars, params, route, polls, wpErr, file, printed>>
  /\ UNCHANGED execVars

Next ==
  \/ Complete
  \/ NsCreate
  \/ NsGet
  \/ NsSleep
  \/ CreateServiceAccount
  \/ CreateRoleBinding
  \/ CreatePod
  \/ ImageStreamCreate
  \/ ImageStreamGet
  \/ FromConfig
  \/ BuildGraph
  \/ StepPodCreate
  \/ StepsReturn
  \/ WriteParameters
  \/ Crash
  \/ Restart
  \/ WdStart
  \/ WdList
  \/ WdWake
  \/ WdSigTerm
  \/ PodFinish
  \/ NsFinalize
  \/ Tick

Spec == Init /\ [][Next]_vars

\* ------------------------------------------------ one run and its parameters
\* a cluster in which an earlier run of the job left its namespace and anchor
LeftCluster ==
  /\ nsPhase = "Active"
  /\ isUID = 1
  /\ nextUID = 2
  /\ sa = FALSE
  /\ rb = FALSE
  /\ active = 0
  /\ route = NoRoute

ExportInit ==
  /\ OptionsInit
  /\ namespaceFlag = <<>>
  /\ RunInit
  /\ ClusterInit \/ LeftCluster
  /\ WatchdogInit
  /\ rpmBuildCommands \in BOOLEAN
  /\ tagConfig \in TagConfigs
  /\ NoGraph

\* one run of main with writeParameters followed line by line; the script of
\* the cleanup pod is followed in Spec
ExportNext ==
  \/ Complete
  \/ NsCreate
  \/ NsGet
  \/ CreateServiceAccount
  \/ CreateRoleBinding
  \/ CreatePod
  \/ ImageStreamCreate
  \/ ImageStreamGet
  \/ FromConfig
  \/ BuildGraph
  \/ StepsReturn
  \/ WpParams
  \/ WpPoll
  \/ WpOutput
  \/ RouteChange
  \/ Tick

ExportSpec == ExportInit /\ [][ExportNext]_vars

\* the cluster and the watchdog pod keep running whatever happens to the
\* orchestrator process; the pod's deadline is what makes TERM certain
FairSpec ==
  /\ Spec
  /\ WF_vars(WdStart)
  /\ WF_vars(WdList)
  /\ WF_vars(WdWake)
  /\ WF_vars(WdSigTerm)
  /\ WF_vars(PodFinish)
  /\ WF_vars(NsFinalize)
  /\ WF_vars(Tick)

\* ------------------------------------------------- the executor of the graph
\* the steps of the configuration
StepNames == {"A", "B", "C"}

\* the steps that a set of links lets one reach from the steps of from
RECURSIVE ReachableFrom(_, _)
ReachableFrom(from, ls) ==
  IF { l[2] : l \in { k \in ls : k[1] \in from } } \subseteq from THEN from
  ELSE ReachableFrom(from \cup { l[2] : l \in { k \in ls : k[1] \in from } }, ls)

\* the steps that consume, directly or not, what s produces
Consumers(s) == ReachableFrom({ l[2] : l \in { k \in links : k[1] = s } }, links)

\* the steps whose output s takes as input
Producers(s) == { l[1] : l \in { k \in links : k[2] = s } }

\* the graphs over the steps: links from producer to consumer, with no cycle
Graphs ==
  { ls \in SUBSET { l \in StepNames \X StepNames : l[1] # l[2] } :
      \A s \in StepNames :
        s \notin ReachableFrom({ l[2] : l \in { k \in ls : k[1] = s } }, ls) }

Terminal == {"succeeded", "failed", "skipped"}

\* mutant: every step that has not started is dispatched, as if all were roots
ReadyAlways(s) == state[s] = "pending"

\* a step of the frontier: not started, every producer succeeded
Ready(s) ==
  /\ state[s] = "pending"
  /\ \A p \in Producers(s) : state[p] = "succeeded"

\* mutant: only the direct consumers of a failed step are skipped
SkippedByDirect(s) == { l[2] : l \in { k \in links : k[1] = s } }

\* the steps marked skipped when s fails
SkippedBy(s) == Consumers(s)

\* a step of the frontier is dispatched
StepStart ==
  /\ pc = "StepsRun"
  /\ \E s \in steps :
       /\ Ready(s)
       /\ state' = [state EXCEPT ![s] = "running"]
       /\ started' = Append(started, s)
  /\ UNCHANGED <<optVars, runVars, procVars, nsPhase, objVars, active, wdVars>>
  /\ UNCHANGED <<gapVars, stepsRunArgs, expVars, steps, links, runErr>>

\* a running step reports success
StepSucceed ==
  /\ pc = "StepsRun"
  /\ \E s \in steps :
       /\ state[s] = "running"
       /\ state' = [state EXCEPT ![s] = "succeeded"]
  /\ UNCHANGED <<optVars, runVars, procVars, nsPhase, objVars, active, wdVars>>
  /\ UNCHANGED <<gapVars, stepsRunArgs, expVars, steps, links, started, runErr>>

\* a running step reports failure: its consumers are marked skipped
StepFail ==
  /\ pc = "StepsRun"
  /\ \E s \in steps :
       /\ state[s] = "running"
       /\ state' = [t \in steps |->
                      IF t = s THEN "failed"
                      ELSE IF t \in SkippedBy(s) /\ state[t] = "pending" THEN "skipped"
                      ELSE state[t]]
  /\ UNCHANGED <<optVars, runVars, procVars, nsPhase, objVars, active, wdVars>>
  /\ UNCHANGED <<gapVars, stepsRunArgs, expVars, steps, links, started, runErr>>

\* the run fails if a step failed
RunFailed == \E s \in steps : state[s] = "failed"

\* lines 197-207: every step has ended and steps.Run returns
RunReturn ==
  /\ pc = "StepsRun"
  /\ \A s \in steps : state[s] \in Terminal
  /\ IF RunFailed
     THEN /\ runErr' = "failed"
          /\ Fail("steps.Run")
          /\ UNCHANGED phases
     ELSE /\ runErr' = "nil"
          /\ \E writeParams \in BOOLEAN :
               pc' = IF writeParams THEN "WriteParams" ELSE "Done"
          /\ phases' = Append(phases, "execute")
          /\ UNCHANGED retErr
  /\ UNCHANGED <<optVars, project, is, err, sleepLeft, attempts, spun>>
  /\ UNCHANGED <<procVars, nsPhase, objVars, active, wdVars, gapVars>>
  /\ UNCHANGED <<stepsRunArgs, expVars, steps, links, state, started>>

\* a dry run of a configuration whose steps form one of the graphs
ExecInit ==
  /\ OptionsInit
  /\ dry
  /\ idleCleanupDuration = 0
  /\ namespaceFlag = <<>>
  /\ RunInit
  /\ ClusterInit
  /\ WatchdogInit
  /\ PlainConfig
  /\ steps = StepNames
  /\ links \in Graphs
  /\ state = [s \in StepNames |-> "pending"]
  /\ started = <<>>
  /\ runErr = "none"

ExecNext ==
  \/ Complete
  \/ FromConfig
  \/ BuildGraph
  \/ StepStart
  \/ StepSucceed
  \/ StepFail
  \/ RunReturn
  \/ WriteParameters

ExecSpec == ExecInit /\ [][ExecNext]_vars

\* a dispatched step ends, and the executor goes on while it can
ExecFairSpec ==
  /\ ExecSpec
  /\ WF_vars(StepStart)
  /\ WF_vars(StepSucceed \/ StepFail)
  /\ WF_vars(RunReturn)

\* ------------------------------------------------------------------ claims
IsPrefix(p, s) == Len(p) <= Len(s) /\ p = SubSeq(s, 1, Len(p))

NamespaceProvisioned == Len(phases) > 0 /\ phases[1] = "namespace"

LoopPCs == {"NsCreate", "NsGet", "NsSleep"}

LaterPCs == {"SA", "RB", "Pod", "ISCreate", "ISGet", "FromConfig", "BuildGraph",
             "StepsRun", "WriteParams", "Done"}

\* C1: in a non-dry run the namespace loop is left only on a project, returned
\* by create or by get, whose phase is not Terminating; an Active project
\* fetched after already-exists ends the loop with no further create; a
\* Terminating one sends Run to the fixed sleep, from which alone the cycle
\* restarts, and nothing later in Run runs while the last observation is
\* Terminating.
C1_ProvisionedOnlyOnLiveNamespace ==
  [][ /\ (~dry' /\ pc' \in LaterPCs) => NamespaceProvisioned'
      /\ NamespaceProvisioned' => project' = "Active"
      /\ project' = "Terminating" => pc' \in LoopPCs \cup {"Failed", "Crashed"}
      /\ (pc = "NsGet" /\ err'.nsGet = "nil" /\ nsPhase = "Active")
            => (pc' = AfterNamespace /\ attempts' = attempts)
      /\ (pc \in {"NsCreate", "NsGet"} /\ project' = "Terminating"
            /\ pc' \notin {"Failed", "Crashed", "NsCreate", "NsGet"})
            => (pc' = "NsSleep" /\ sleepLeft' = SleepSeconds * TicksPerSecond)
      /\ (pc = "NsSleep" /\ pc' = "NsCreate") => sleepLeft = 0
    ]_vars

C1_Witness ==
  /\ ~dry
  /\ pc \in LaterPCs
  /\ project = "Active"
  /\ attempts >= 2
  /\ ~spun

\* C2: the namespace loop is left after a bounded number of create attempts,
\* and no retry is made without the fixed delay before it.
C2_BoundedRetryWithDelay == attempts < MaxAttempts /\ ~spun

\* an answer other than already-exists or not-found to a call whose error
\* Run returns
ProvisioningError ==
  \/ err.nsCreate = "Other"
  \/ err.nsGet = "Other"
  \/ err.sa = "Other"
  \/ err.rb = "Other"
  \/ err.pod = "Other"
  \/ err.isCreate = "Other"

StepPhases == {"steps", "graph", "execute", "params"}

Logged(ph) == \E i \in 1..Len(phases) : phases[i] = ph

\* C3: after a create or get of the namespace, of a watchdog object or of the
\* anchor failed with an error other than already-exists (not-found for the
\* get), Run has returned an error and steps.FromConfig, steps.Run and
\* writeParameters were not invoked in that run.
C3_ProvisioningErrorAborts ==
  ProvisioningError =>
    /\ pc = "Failed"
    /\ retErr \notin {"none", "failed to generate steps from config", "steps.Run",
                      "failed to write parameters"}
    /\ \A ph \in StepPhases : ~Logged(ph)

C3_Witness ==
  /\ pc = "Failed"
  /\ err.isCreate = "Other"
  /\ Logged("watchdog")
  /\ retErr = "could not set up pipeline imagestream for test"

\* the anchor the previous run attached as owner is still in the cluster
SameCluster ==
  /\ runNo > 1
  /\ prev.owner.set
  /\ prev.owner.uid # 0
  /\ isUID = prev.owner.uid

\* C4: a second run for the same job against the cluster the first run left
\* (its anchor still there) gets the same namespace name; once it has read the
\* anchor it has seen already-exists for namespace and anchor and attaches the
\* same anchor UID as owner; and it returns no provisioning error unless the
\* control plane answered with an error other than already-exists.
C4_ProvisioningIdempotent ==
  SameCluster =>
    /\ jobSpec # NoJobSpec => jobSpec.namespace = prev.namespace
    /\ (Logged("anchor") /\ err.isGet = "nil") =>
         /\ err.nsCreate = "AlreadyExists"
         /\ err.isCreate = "AlreadyExists"
         /\ jobSpec.owner = prev.owner
    /\ (pc = "Failed" /\ ~Logged("anchor")) => ProvisioningError

C4_Witness ==
  /\ SameCluster
  /\ pc = "FromConfig"
  /\ err.nsCreate = "AlreadyExists"
  /\ err.isCreate = "AlreadyExists"
  /\ err.isGet = "nil"
  /\ jobSpec.owner = prev.owner
  /\ jobSpec.namespace = prev.namespace

\* C5: when the create of the anchor and the get after it both failed, Run
\* goes on with no owner reference in the JobSpec; an owner reference, when
\* set, carries the UID of an anchor that exists.
C5_OwnerOnlyFromExistingAnchor ==
  /\ (err.isCreate = "AlreadyExists" /\ err.isGet \in {"NotFound", "Other"})
       => ~jobSpec.owner.set
  /\ jobSpec.owner.set => jobSpec.owner.uid # 0

PhaseOf(p) ==
  CASE p \in LoopPCs -> "namespace"
    [] p \in {"SA", "RB", "Pod"} -> "watchdog"
    [] p \in {"ISCreate", "ISGet"} -> "anchor"
    [] p = "FromConfig" -> "steps"
    [] p = "BuildGraph" -> "graph"
    [] p = "StepsRun" -> "execute"
    [] p = "WriteParams" -> "params"
    [] OTHER -> "none"

\* in a non-dry run with the watchdog enabled, the finished phases are the
\* first ones of order, in that order, and the phase in progress is the next
InOrder(order) ==
  (~dry /\ idleCleanupDuration > 0) =>
    /\ IsPrefix(phases, order)
    /\ PhaseOf(pc) # "none" =>
         (Len(phases) < Len(order) /\ order[Len(phases) + 1] = PhaseOf(pc))

ClaimedOrder ==
  <<"namespace", "anchor", "watchdog", "steps", "graph", "execute", "params">>

CodeOrder ==
  <<"namespace", "watchdog", "anchor", "steps", "graph", "execute", "params">>

\* C6 as amended: namespace, then watchdog, then anchor image stream, then
\* steps obtained, graph built, graph executed, parameters exported; no phase
\* starts before the previous one has finished.
C6_PhasesInCodeOrder == InOrder(CodeOrder)

C6_Witness ==
  /\ ~dry
  /\ idleCleanupDuration > 0
  /\ pc = "Done"
  /\ phases = CodeOrder

\* C6 as claimed: namespace, then anchor image stream, then watchdog, then
\* steps obtained, graph built, graph executed, parameters exported.
C6_PhasesInClaimedOrder == InOrder(ClaimedOrder)

\* C7: unless it received TERM, the script has issued the namespace delete
\* only after two consecutive listings that showed no active run-once pod.
C7_DeleteOnlyAfterTwoEmptyListings ==
  (wdDeleted /\ ~termSeen) => emptyObs = 2

\* C8: once the traps are set, the script never ends without having issued
\* the namespace delete, whatever made it end: TERM while oc get pods runs or
\* during the sleep, with the idle count at 0 or 1, the idle exit, or a
\* failed command.
C8_DeleteOnEveryExit ==
  (wpc = "exited" /\ wdExit # "SIGTERM") => (wdDeleted /\ nsPhase # "Active")

C8_Witness ==
  /\ wpc = "exited"
  /\ termSeen
  /\ wdExit = "2"
  /\ count = <<0, 1>>
  /\ deleteVia = "term"
  /\ wdDeleted

\* C9: under fairness of the cluster and of the watchdog pod, in a run with
\* the watchdog enabled, whenever the namespace exists its delete is
\* eventually issued, whatever happens to the orchestrator process.
C9_NamespaceEventuallyDeleted ==
  []((nsPhase = "Active" /\ idleCleanupDuration > 0)
        => <>(wdDeleted \/ nsPhase # "Active"))

\* every stretch of time without an active run-once pod has so far been
\* shorter than the script's idle interval
GapsShort == WaitTicks > 0 /\ ~gapLong /\ gapLen < WaitTicks

\* C10: while steps.Run is executing the graph and every gap without an
\* active run-once pod is shorter than one idle interval, the script has not
\* deleted the namespace by its idle path.
C10_NoIdleDeleteBetweenSteps ==
  (pc = "StepsRun" /\ GapsShort) => deleteVia # "idle"

\* the entry of params for the rpm repository, as a dry run writes it
RpmPlaceholder == <<"RPM_REPO=", "\"", "\"">>

\* C11: in a dry run no create or get is sent for the namespace, the watchdog
\* objects or the anchor and none of them comes to exist through the run;
\* steps.Run is called with dry-run true; writeParameters makes no poll and
\* gives the rpm repository the empty placeholder; the parameters are printed
\* and the file is not written.
C11_DryRunTouchesNothing ==
  dry =>
    /\ err = NoErrs
    /\ pc \notin LoopPCs \cup {"SA", "RB", "Pod", "ISCreate", "ISGet", "WpPoll"}
    /\ ~sa /\ ~rb /\ wpc = "none" /\ is = NilIS
    /\ stepsRunArgs \in {<<>>, <<TRUE>>}
    /\ Logged("graph") => stepsRunArgs = <<TRUE>>
    /\ polls = 0 /\ pollLeft = 0 /\ pollWait = 0
    /\ (rpmBuildCommands /\ pc \in {"WpOutput", "Done"} /\ Len(params) > 0)
         => params[Len(params)] = RpmPlaceholder
    /\ file = NoFile
    /\ Logged("params") => printed = <<Join(params, "\n")>>
    /\ ~Logged("params") => printed = <<>>

C11_Witness ==
  /\ dry
  /\ idleCleanupDuration > 0
  /\ rpmBuildCommands
  /\ pc = "Done"
  /\ stepsRunArgs = <<TRUE>>
  /\ Len(params) = 3
  /\ params[3] = RpmPlaceholder
  /\ Len(printed) = 1

\* the errors that end the resolution of the route host
RouteErrors ==
  {"could not get route client for cluster config", "NotFound", "Other",
   "timed out waiting for the condition"}

\* params holds an entry for the rpm repository with a host between the quotes
HostResolved ==
  \E i \in 1..Len(params) :
    /\ Len(params[i]) > 3
    /\ params[i][1] = "RPM_REPO="

\* C12: the parameter file is written at most once in a run, only in a run
\* that is not dry, after steps.Run returned no error and, when the rpm
\* repository is asked for, after the poll gave its host; what is written is
\* the parameters joined by newlines; after steps.Run returned an error, or
\* the route get failed or the poll timed out, the file is as it was.
C12_FileOnlyAfterSuccess ==
  /\ file.writes <= 1
  /\ file.writes > 0 =>
       /\ ~dry
       /\ Logged("execute")
       /\ retErr # "steps.Run"
       /\ rpmBuildCommands => HostResolved
       /\ wpErr \in {"none", "write"}
  /\ (file.writes > 0 /\ wpErr = "none") =>
       (pc = "Done" /\ file.content = Join(params, "\n"))
  /\ (pc = "Failed" /\ retErr # "failed to write parameters") => file = NoFile
  /\ wpErr \in RouteErrors => file = NoFile

C12_Witness ==
  /\ pc = "Done"
  /\ file.writes = 1
  /\ rpmBuildCommands
  /\ tagConfig = "tag"
  /\ polls > 1
  /\ Len(file.content) > 0

\* the hosts of the ingresses of a route that are admitted and not empty
AdmittedHosts(r) ==
  { r.ingress[i].host : i \in { j \in 1..Len(r.ingress) :
                                   /\ r.ingress[j].admitted
                                   /\ Len(r.ingress[j].host) > 0 } }

\* the entries of a list of parameters that name the rpm repository
RpmEntries(ps) == { i \in 1..Len(ps) : Len(ps[i]) > 0 /\ ps[i][1] = "RPM_REPO=" }

IntervalTicks == PollIntervalSeconds * TicksPerSecond

TimeoutTicks == PollTimeoutSeconds * TicksPerSecond

\* C13: the condition of the poll runs at once and then once per interval of
\* one second, the k-th call k-1 seconds after the start, and never later than
\* one minute after it; a call that gets the route with an admitted ingress
\* that has a host ends the poll with that host as RPM_REPO, the only such
\* entry; a call that gets a route without one goes on to the next interval,
\* or, when the minute is over, ends the export with the timeout error.
C13_BoundedIntervalPoll ==
  [][ (pc = "WpPoll" /\ polls' = polls + 1) =>
        /\ pollLeft = TimeoutTicks - polls * IntervalTicks
        /\ polls * PollIntervalSeconds <= PollTimeoutSeconds
        /\ (wpErr' \notin {"NotFound", "Other"} /\ AdmittedHosts(route) # {}) =>
             /\ pc' = "WpOutput"
             /\ Len(params') = Len(params) + 1
             /\ \E h \in AdmittedHosts(route) :
                  params'[Len(params')] = <<"RPM_REPO=">> \o Quote(h)
             /\ Cardinality(RpmEntries(params')) = 1
        /\ (wpErr' \notin {"NotFound", "Other"} /\ AdmittedHosts(route) = {}) =>
             /\ params' = params
             /\ pollLeft > 0 => (pc' = "WpPoll" /\ pollWait' = IntervalTicks
                                   /\ wpErr' = "none")
             /\ pollLeft = 0 => (pc' = "Failed"
                                   /\ wpErr' = "timed out waiting for the condition"
                                   /\ retErr' = "failed to write parameters")
        /\ wpErr' = "timed out waiting for the condition" =>
             polls * PollIntervalSeconds = PollTimeoutSeconds
    ]_vars

C13_Witness ==
  /\ pc = "Done"
  /\ polls = 11
  /\ HostResolved
  /\ Cardinality(RpmEntries(params)) = 1
  /\ file.writes = 1

\* the errors of the get of the route
RouteGetErrors == {"NotFound", "Other"}

\* C20: a call of the poll's condition whose route get fails, as it does with
\* not-found while the route does not exist, ends writeParameters at once
\* with that error; after it no further call is made, whatever is left of the
\* minute, there is no RPM_REPO entry and the file is as it was.
C20_RouteGetErrorEndsPoll ==
  [][ /\ (pc = "WpPoll" /\ polls' = polls + 1 /\ ~route.exists) =>
           wpErr' \in RouteGetErrors
      /\ wpErr' \in RouteGetErrors =>
           /\ pc' = "Failed"
           /\ retErr' = "failed to write parameters"
           /\ RpmEntries(params') = {}
           /\ file' = NoFile
      /\ wpErr \in RouteGetErrors =>
           /\ wpErr' = wpErr
           /\ polls' = polls
    ]_vars

C20_Witness ==
  /\ pc = "Failed"
  /\ wpErr = "NotFound"
  /\ polls = 3
  /\ ~route.exists
  /\ file = NoFile

\* the steps that were dispatched
Dispatched == { s \in steps : state[s] \in {"running", "succeeded", "failed"} }

\* C14: for every graph of the steps, a step that was dispatched has all its
\* producers in the state succeeded, and in the order of dispatch every
\* producer comes before its consumer; steps with no path between them are
\* dispatched in either order.
C14_ProducersSucceedFirst ==
  /\ \A s \in Dispatched : \A p \in Producers(s) : state[p] = "succeeded"
  /\ \A i \in 1..Len(started) :
       \A p \in Producers(started[i]) : \E j \in 1..(i - 1) : started[j] = p
  /\ { started[i] : i \in 1..Len(started) } = Dispatched

C14_Witness ==
  /\ links = {<<"A", "B">>}
  /\ started = <<"C", "A", "B">>
  /\ state = [s \in StepNames |-> "succeeded"]
  /\ pc = "Done"

\* a failed step leaves its consumers skipped and never dispatched; only
\* consumers of a failed step are skipped
FailureContained ==
  /\ \A x \in steps : state[x] = "failed" =>
       \A y \in Consumers(x) : state[y] = "skipped" /\ y \notin Dispatched
  /\ \A y \in steps : state[y] = "skipped" =>
       \E x \in steps : state[x] = "failed" /\ y \in Consumers(x)

\* steps.Run has returned: an error if and only if a step failed
RunReported ==
  runErr # "none" =>
    /\ \A s \in steps : state[s] \in Terminal
    /\ runErr = "failed" <=> (\E s \in steps : state[s] = "failed")
    /\ runErr = "failed" <=> (pc = "Failed" /\ retErr = "steps.Run")

\* C15: when a step fails, every step reachable from it is skipped and never
\* dispatched, and no other step is skipped; once the graph is being
\* executed every step reaches a terminal state and steps.Run returns; it
\* returns an error when a step failed and none when no step failed.
C15_FailureContained ==
  /\ [](FailureContained /\ RunReported)
  /\ [](pc = "StepsRun" => <>(runErr # "none"))

C15_Witness ==
  /\ links = {<<"A", "B">>}
  /\ state = [s \in StepNames |->
                IF s = "A" THEN "failed" ELSE IF s = "B" THEN "skipped"
                ELSE "succeeded"]
  /\ started = <<"A", "C">>
  /\ runErr = "failed"
  /\ pc = "Failed"

\* Run has issued no call to the cluster yet
NoCallYet == err = NoErrs

\* Run is at or past steps.FromConfig, or has ended
StepsOrLater ==
  pc \in {"FromConfig", "BuildGraph", "StepsRun", "WriteParams", "Done", "Failed",
          "Crashed"}

\* C16 as amended: within one run, namespace and base namespace of the JobSpec
\* are written once, in Complete, before any call to the cluster; the owner
\* is written at most once, after the anchor was created or fetched and
\* before steps.FromConfig; from steps.FromConfig on no field changes.
C16_JobSpecFixedBeforeSteps ==
  [][ runNo' = runNo =>
        /\ (jobSpec'.namespace # jobSpec.namespace
              \/ jobSpec'.baseNamespace # jobSpec.baseNamespace)
             => (pc = "Complete" /\ NoCallYet /\ jobSpec = NoJobSpec)
        /\ jobSpec'.owner # jobSpec.owner
             => /\ pc \in {"ISCreate", "ISGet"}
                /\ pc' = "FromConfig"
                /\ ~jobSpec.owner.set
                /\ jobSpec'.owner.set
        /\ StepsOrLater => jobSpec' = jobSpec
    ]_vars

C16_Witness ==
  /\ pc = "StepsRun"
  /\ jobSpec.namespace = <<"ci-op-", "hash">>
  /\ jobSpec.baseNamespace = BaseNamespaceFlag
  /\ jobSpec.owner.set
  /\ err.nsCreate = "nil"
  /\ err.pod = "nil"
  /\ err.isCreate = "nil"

\* C16 as claimed: within one run, every write to the JobSpec happens before
\* the first create call to the cluster, and each field is written at most
\* once.
C16_JobSpecWrittenBeforeCreates ==
  [][ (runNo' = runNo /\ jobSpec' # jobSpec) => NoCallYet ]_vars

\* the calls of createNamespaceCleanupPod
WatchdogCalls == {"sa", "rb", "pod"}

\* C17: in a run that is dry or has idleCleanupDuration <= 0 no create is sent
\* for the cleanup service account, role binding or pod; in a non-dry run
\* with idleCleanupDuration > 0 the three creates are sent in that order
\* right after the namespace loop, each only after the one before it
\* answered nil or already-exists, which both let Run go on, and Run reaches
\* the anchor only after all three.
C17_WatchdogOnlyWhenConfigured ==
  /\ (dry \/ idleCleanupDuration <= 0) =>
       /\ \A c \in WatchdogCalls : err[c] = "none"
       /\ pc \notin {"SA", "RB", "Pod"}
       /\ ~Logged("watchdog")
  /\ (~dry /\ idleCleanupDuration > 0) =>
       /\ err.rb # "none" => err.sa \in {"nil", "AlreadyExists"}
       /\ err.pod # "none" => err.rb \in {"nil", "AlreadyExists"}
       /\ pc = "RB" => err.sa \in {"nil", "AlreadyExists"}
       /\ pc = "Pod" => err.rb \in {"nil", "AlreadyExists"}
       /\ Logged("watchdog") <=> err.pod \in {"nil", "AlreadyExists"}
       /\ (pc \in {"ISCreate", "ISGet"} \/ Logged("anchor")) =>
            /\ Logged("watchdog")
            /\ \A c \in WatchdogCalls : err[c] \in {"nil", "AlreadyExists"}
       /\ err.isCreate # "none" => Logged("watchdog")

C17_Witness ==
  /\ ~dry
  /\ idleCleanupDuration > 0
  /\ runNo = 2
  /\ pc = "ISCreate"
  /\ err.sa = "AlreadyExists"
  /\ err.rb = "AlreadyExists"
  /\ err.pod = "AlreadyExists"
  /\ wpc = "exited"

\* C18: when the script has deleted the namespace by its idle exit, the
\* period without an active run-once pod that ends at that exit has lasted at
\* least the wait of the script, which is what the claim asks at the least
\* (it asks for longer than idleCleanupDuration).
C18_IdleDeleteOnlyAfterIdlePeriod ==
  (deleteVia = "idle" /\ WaitTicks > 0) => gapLen >= WaitTicks

\* the container of the cleanup-when-idle pod is running its script
WatchdogRunning == wpc \in {"start", "list", "sleep"}

\* C19: in a non-dry run with idleCleanupDuration > 0, steps.FromConfig and
\* steps.Run are reached only after the creates of the service account, the
\* role binding and the cleanup pod each answered nil or already-exists, and
\* while steps.Run executes in the namespace the cleanup pod is there and
\* running, so that a pod a step creates is watched from its creation.
C19_StepsOnlyUnderWatchdog ==
  (~dry /\ idleCleanupDuration > 0) =>
    /\ (pc \in {"FromConfig", "BuildGraph", "StepsRun"} \/ Logged("steps")) =>
         \A c \in {"sa", "rb", "pod"} : err[c] \in {"nil", "AlreadyExists"}
    /\ (pc = "StepsRun" /\ nsPhase = "Active") => WatchdogRunning

====
